---- MODULE Spec2Model ----
(***************************************************************************)
(* CFO-Agent backend: the forecast simulator (main.py calculate_runway),   *)
(* the retrieval index (llm_rag_agent.py VectorStore), the scenario engine *)
(* (rag_agent.py RAGAgent) and the HTTP endpoints over it (rag.py), each   *)
(* under its own specification.                                            *)
(***************************************************************************)
EXTENDS Integers, Sequences, FiniteSets, TLC

VARIABLES
    \* ---- calculate_runway (main.py:120-166) ----
    scenario,            \* the ScenarioInput argument
    rw_pc,               \* position in calculate_runway
    month,               \* the loop variable of `for month in range(1, N + 1)`
    current_balance,     \* in hundredths of a currency unit
    months_of_runway,
    monthly_data,        \* the list of forecast entries
    iterations,          \* number of loop bodies executed so far
    result,              \* the returned ScenarioResult (NoResult until the return)
    \* ---- VectorStore (llm_rag_agent.py:19-55) ----
    documents,           \* self.documents
    index,               \* the vectors held by self.index, in insertion order
    added,               \* history: the batches add_documents took, concatenated
    vs_last,             \* history: the last VectorStore call and what it returned
    \* ---- RAGAgent (rag_agent.py:44-208) ----
    context_store,       \* self.context_store: company id -> FinancialContext
    scenario_store,      \* self.scenario_store: scenario id -> UserScenario
    analysis_store,      \* self.analysis_store: analysis id -> FinancialAnalysis
    offered,             \* the changes mapping the caller submits in this run
    last,                \* history: the last RAGAgent call and how it ended
    now,                 \* the next reading of datetime.utcnow()
    response,            \* history: the HTTP reply to the last call, if it came by HTTP
    issued,              \* history: the scenario ids create_scenario returned, in order
    upserted,            \* history: company id -> the last context given to add_financial_context
    generated,           \* history: analysis id -> what the generation call of that analysis did
    \* ---- the handlers of rag.py on the event loop, statement by statement ----
    tasks,               \* request -> its handler's position, locals and record of events
    running              \* the request whose handler holds the event loop, 0 if none does

runwayVars == <<scenario, rw_pc, month, current_balance, months_of_runway,
                monthly_data, iterations, result>>

indexVars == <<documents, index, added, vs_last>>

stepVars == <<tasks, running>>

agentVars == <<context_store, scenario_store, analysis_store, offered, last, now,
               response, issued, upserted, generated, stepVars>>

vars == <<runwayVars, indexVars, agentVars>>

(***************************************************************************)
(* Each specification runs one component; the others stay as constructed.  *)
(***************************************************************************)
NoResult == [returned |-> FALSE]

RunwayIdle ==
    /\ scenario = [months_to_forecast |-> 0]
    /\ rw_pc = "idle"
    /\ month = 0
    /\ current_balance = 0
    /\ months_of_runway = 0
    /\ monthly_data = <<>>
    /\ iterations = 0
    /\ result = NoResult

NoCall == [op |-> "none"]

IndexIdle ==
    /\ documents = <<>>
    /\ index = <<>>
    /\ added = <<>>
    /\ vs_last = NoCall

\* the empty dict
EmptyStore == [k \in {} |-> 0]

\* the process starts at this reading of the clock; each reading is later than
\* the one before it
Epoch == 10

\* no HTTP request was made
NoResponse == [endpoint |-> "none"]

\* the requests a client can have open at one time
Requests == {1, 2}

\* dict.get(key) of a missing key, and a local not yet assigned
None == [none |-> TRUE]

\* a request that has not been sent
IdleTask ==
    [pc |-> "idle", op |-> "none", arg |-> None, overlapped |-> FALSE, seen |-> None,
     scenario |-> None, context |-> None, updated_context |-> None, impact |-> None,
     summary |-> <<>>, id |-> None, record |-> None, log |-> <<>>, status |-> "none",
     error |-> "none"]

AgentIdle ==
    /\ context_store = EmptyStore
    /\ scenario_store = EmptyStore
    /\ analysis_store = EmptyStore
    /\ offered = EmptyStore
    /\ last = NoCall
    /\ now = Epoch
    /\ response = NoResponse
    /\ issued = <<>>
    /\ upserted = EmptyStore
    /\ generated = EmptyStore
    /\ tasks = [r \in Requests |-> IdleTask]
    /\ running = 0

(***************************************************************************)
(* Forecast simulator.  Money is held exactly, in hundredths of a unit, so *)
(* that revenue * (1 + percent / 100) has no fractional part.              *)
(***************************************************************************)
MaxHorizon == 12

CashValues == {-1500, 0, 1000, 10000}
RevenueValues == {0, 5000, 8000}
ExpenseValues == {5000, 6000}
HireValues == {0, 2}
SalaryValues == {0, 500}
MarketingValues == {0, 1000}
PercentValues == {-50, 0, 25}
Horizons == -1 .. MaxHorizon

ScenarioInput ==
    [current_cash : CashValues, monthly_revenue : RevenueValues,
     monthly_expenses : ExpenseValues, new_hires : HireValues,
     salary_per_hire : SalaryValues, marketing_spend : MarketingValues,
     price_increase_percent : PercentValues, months_to_forecast : Horizons]

\* main.py:130  scenario.monthly_revenue * (1 + scenario.price_increase_percent / 100)
adjusted_revenue(s) == s.monthly_revenue * (100 + s.price_increase_percent)

\* main.py:133  scenario.new_hires * scenario.salary_per_hire
hiring_costs(s) == s.new_hires * s.salary_per_hire * 100

\* main.py:143  the expenses column of an entry
entry_expenses(s) == s.monthly_expenses * 100 + hiring_costs(s) + s.marketing_spend * 100

\* a cash flow that forgets the marketing spend
monthly_net_without_marketing(s) ==
    adjusted_revenue(s) - s.monthly_expenses * 100 - hiring_costs(s)

\* main.py:137
monthly_net(s) ==
    adjusted_revenue(s) - s.monthly_expenses * 100 - hiring_costs(s) - s.marketing_spend * 100

\* a runway that counts a month ending at exactly zero
runway_after_zero_counts(balance, m, before) == IF balance >= 0 THEN m ELSE before

\* main.py:149-150  months_of_runway after an iteration
runway_after(balance, m, before) == IF balance > 0 THEN m ELSE before

\* a break that lets a balance of exactly zero through
loop_breaks_negative_only(balance) == balance < 0

\* main.py:153-154  the break
loop_breaks(balance) == balance <= 0

\* a range that runs one month past the horizon
range_has_extra_month(m, s) == m <= s.months_to_forecast + 1

\* main.py:135  month in range(1, scenario.months_to_forecast + 1)
range_has(m, s) == m >= 1 /\ m <= s.months_to_forecast

InitRunway ==
    /\ IndexIdle
    /\ AgentIdle
    /\ scenario \in ScenarioInput
    /\ rw_pc = "start"
    /\ month = 0
    /\ current_balance = 0
    /\ months_of_runway = 0
    /\ monthly_data = <<>>
    /\ iterations = 0
    /\ result = NoResult

\* main.py:125-133
RunwaySetup ==
    /\ rw_pc = "start"
    /\ monthly_data' = <<>>
    /\ current_balance' = scenario.current_cash * 100
    /\ months_of_runway' = 0
    /\ rw_pc' = "loop"
    /\ UNCHANGED <<scenario, month, iterations, result>>
    /\ UNCHANGED <<indexVars, agentVars>>

\* main.py:135-154  one pass through the loop body
RunwayIteration ==
    /\ rw_pc = "loop"
    /\ range_has(month + 1, scenario)
    /\ LET m == month + 1
           balance == current_balance + monthly_net(scenario)
       IN /\ month' = m
          /\ current_balance' = balance
          /\ monthly_data' = Append(monthly_data,
                 [month |-> m,
                  revenue |-> adjusted_revenue(scenario),
                  expenses |-> entry_expenses(scenario),
                  net_income |-> monthly_net(scenario),
                  balance |-> balance])
          /\ months_of_runway' = runway_after(balance, m, months_of_runway)
          /\ rw_pc' = IF loop_breaks(balance) THEN "return" ELSE "loop"
    /\ iterations' = iterations + 1
    /\ UNCHANGED <<scenario, result>>
    /\ UNCHANGED <<indexVars, agentVars>>

\* main.py:135  range(1, N + 1) is exhausted
RunwayExhausted ==
    /\ rw_pc = "loop"
    /\ ~range_has(month + 1, scenario)
    /\ rw_pc' = "return"
    /\ UNCHANGED <<scenario, month, current_balance, months_of_runway,
                   monthly_data, iterations, result>>
    /\ UNCHANGED <<indexVars, agentVars>>

\* main.py:156-166
RunwayReturn ==
    /\ rw_pc = "return"
    /\ result' = [returned |-> TRUE,
                  monthly_forecast |-> monthly_data,
                  total_months_of_runway |-> months_of_runway,
                  final_cash_balance |-> current_balance]
    /\ rw_pc' = "done"
    /\ UNCHANGED <<scenario, month, current_balance, months_of_runway,
                   monthly_data, iterations>>
    /\ UNCHANGED <<indexVars, agentVars>>

NextRunway == RunwaySetup \/ RunwayIteration \/ RunwayExhausted \/ RunwayReturn

SpecRunway == InitRunway /\ [][NextRunway]_vars

\* The loop is the only work of the call and nothing else is scheduled with it.
SpecRunwayFair == SpecRunway /\ WF_vars(NextRunway)

(***************************************************************************)
(* Retrieval index.  np.random.rand draws every stored vector and every    *)
(* query vector afresh; a draw is a choice among a few sample vectors.     *)
(***************************************************************************)
MaxDocs == 2
MaxBatch == 2

\* config.py:33
SIMILARITY_TOP_K == 3

Texts == {"runway", "hiring"}
Queries == {"q1", "q2"}
KValues == {0, 2, SIMILARITY_TOP_K, 5}
RandomVectors == {<<0>>, <<1>>, <<2>>}

\* a document is a dict; has_text says whether it has the key 'text'
Docs == [has_text : {TRUE}, text : Texts] \cup {[has_text |-> FALSE, text |-> ""]}
Batches == UNION {[1 .. n -> Docs] : n \in 0 .. MaxBatch}

\* llm_rag_agent.py:21-24
InitIndex ==
    /\ RunwayIdle
    /\ AgentIdle
    /\ IndexIdle

\* faiss IndexFlatL2: squared Euclidean distance
L2sqr(u, v) == (u[1] - v[1]) * (u[1] - v[1])

Perms(n) == {p \in [1 .. n -> 1 .. n] : \A i, j \in 1 .. n : i # j => p[i] # p[j]}

\* the orders in which faiss may rank the stored vectors for query vector q:
\* nondecreasing distance, equal distances in any order
Rankings(q, vectors) ==
    {p \in Perms(Len(vectors)) :
        \A i, j \in 1 .. Len(vectors) :
            i < j => L2sqr(q, vectors[p[i]]) <= L2sqr(q, vectors[p[j]])}

\* llm_rag_agent.py:52  index.search(query_embedding, k): k labels, 0-based,
\* the slots past the last stored vector filled with -1
faiss_labels(ranking, k) ==
    [i \in 1 .. k |-> IF i <= Len(ranking) THEN ranking[i] - 1 ELSE -1]

\* self.documents[idx] for a Python index idx, as a position 1 .. n
python_position(idx, n) == IF idx < 0 THEN n + 1 + idx ELSE idx + 1

RECURSIVE kept_positions(_, _)
\* llm_rag_agent.py:55  [self.documents[idx] for idx in indices[0] if idx < len(self.documents)]
kept_positions(labels, n) ==
    IF labels = <<>> THEN <<>>
    ELSE IF Head(labels) < n
         THEN <<python_position(Head(labels), n)>> \o kept_positions(Tail(labels), n)
         ELSE kept_positions(Tail(labels), n)

RECURSIVE without_known_texts(_, _)
without_known_texts(docs, batch) ==
    IF batch = <<>> THEN <<>>
    ELSE IF \E i \in 1 .. Len(docs) : docs[i].text = Head(batch).text
         THEN without_known_texts(docs, Tail(batch))
         ELSE <<Head(batch)>> \o without_known_texts(docs \o <<Head(batch)>>, Tail(batch))

\* an extend that skips a text the store already holds
extend_deduplicating(docs, batch) == docs \o without_known_texts(docs, batch)

\* llm_rag_agent.py:33  self.documents.extend(documents)
extend(docs, batch) == docs \o batch

\* llm_rag_agent.py:26-41
add_documents(batch) ==
    /\ Len(documents) + Len(batch) <= MaxDocs
    /\ IF batch = <<>>
       THEN \* line 28-29: nothing to do
            /\ UNCHANGED <<documents, index, added>>
            /\ vs_last' = [op |-> "add", status |-> "returned", n |-> 0]
       ELSE IF \E i \in 1 .. Len(batch) : ~batch[i].has_text
       THEN \* line 32: doc['text'] raises KeyError before anything is stored
            /\ UNCHANGED <<documents, index, added>>
            /\ vs_last' = [op |-> "add", status |-> "raised", n |-> Len(batch)]
       ELSE /\ documents' = extend(documents, batch)
            \* line 36-41: one random vector per text, appended to the index
            /\ \E embeddings \in [1 .. Len(batch) -> RandomVectors] :
                   index' = index \o embeddings
            /\ added' = added \o batch
            /\ vs_last' = [op |-> "add", status |-> "returned", n |-> Len(batch)]
    /\ UNCHANGED <<runwayVars, agentVars>>

\* whether this search repeats the call before it (same query and k, nothing
\* added in between) and, if so, whether it returns the same result
repeats(query, k, res) ==
    IF vs_last.op = "search" /\ vs_last.status = "returned"
       /\ vs_last.query = query /\ vs_last.k = k
    THEN IF vs_last.result = res THEN "same" ELSE "different"
    ELSE "no"

\* llm_rag_agent.py:43-55; a result is the sequence of the positions in
\* self.documents of the documents returned
search(query, k) ==
    /\ IF documents = <<>>
       THEN \* line 45-46
            vs_last' = [op |-> "search", status |-> "returned", query |-> query,
                        k |-> k, result |-> <<>>, repeats |-> repeats(query, k, <<>>)]
       ELSE IF k = 0
       THEN \* faiss builds differ on k = 0: an empty answer, or an AssertionError
            \/ vs_last' = [op |-> "search", status |-> "returned", query |-> query,
                           k |-> k, result |-> <<>>, repeats |-> repeats(query, k, <<>>)]
            \/ vs_last' = [op |-> "search", status |-> "raised", query |-> query,
                           k |-> k, result |-> <<>>, repeats |-> "no"]
       ELSE \E query_embedding \in RandomVectors :
            \E ranking \in Rankings(query_embedding, index) :
                LET res == kept_positions(faiss_labels(ranking, k), Len(documents))
                IN vs_last' = [op |-> "search", status |-> "returned", query |-> query,
                               k |-> k, result |-> res,
                               repeats |-> repeats(query, k, res)]
    /\ UNCHANGED <<documents, index, added>>
    /\ UNCHANGED <<runwayVars, agentVars>>

NextIndex ==
    \/ \E batch \in Batches : add_documents(batch)
    \/ \E query \in Queries, k \in KValues : search(query, k)

SpecIndex == InitIndex /\ [][NextIndex]_vars

(***************************************************************************)
(* Scenario engine.  A number is held exactly, in halves: the integer n    *)
(* stands for the value n / 2, so that a delta of 0.5 can be told from 0.  *)
(***************************************************************************)
MaxScenarios == 2
MaxAnalyses == 2

Whole(x) == 2 * x

\* the values a dict can hold under a key, by Python type
Num(n) == [t |-> "num", n |-> n, s |-> ""]
Str(x) == [t |-> "str", n |-> 0, s |-> x]
Time(n) == [t |-> "time", n |-> n, s |-> ""]
Dict(x) == [t |-> "dict", n |-> 0, s |-> x]

\* rag_agent.py:10-24
FloatFields == {"current_cash", "monthly_revenue", "monthly_expenses", "marketing_spend",
                "average_salary", "price_per_unit", "runway_months"}
IntFields == {"team_size", "units_sold"}
NumericFields == FloatFields \cup IntFields
TextFields == {"id", "company_id"}
ContextFields == NumericFields \cup TextFields \cup {"last_updated", "metadata"}

Companies == {"test_company_123", "globex"}

\* tests/test_rag_agent.py:16-28
TestContext(company) ==
    [id |-> "test_ctx_1", company_id |-> company,
     current_cash |-> Whole(1000000), monthly_revenue |-> Whole(500000),
     monthly_expenses |-> Whole(300000), marketing_spend |-> Whole(50000),
     team_size |-> Whole(10), average_salary |-> Whole(50000),
     price_per_unit |-> Whole(100), units_sold |-> Whole(5000),
     runway_months |-> Whole(5), last_updated |-> 1, metadata |-> "{}"]

\* a company that has not started trading: every figure is zero
ZeroContext(company) ==
    [id |-> "ctx_zero", company_id |-> company,
     current_cash |-> 0, monthly_revenue |-> 0, monthly_expenses |-> 0,
     marketing_spend |-> 0, team_size |-> 0, average_salary |-> 0,
     price_per_unit |-> 0, units_sold |-> 0, runway_months |-> 0,
     last_updated |-> 2, metadata |-> "{}"]

\* the contexts a caller upserts
Contexts ==
    {TestContext("test_company_123"), ZeroContext("test_company_123"), TestContext("globex")}

\* the changes mappings a caller submits (rag_agent.py:30, Dict[str, Any])
ChangeSets ==
    { \* tests/test_rag_agent.py:60-64
      ("monthly_revenue" :> Num(Whole(100000))) @@ ("monthly_expenses" :> Num(Whole(50000)))
          @@ ("team_size" :> Num(Whole(2))),
      \* half a hire, one and a half units fewer, half a month more
      ("team_size" :> Num(1)) @@ ("units_sold" :> Num(-3)) @@ ("runway_months" :> Num(1)),
      \* cuts deeper than the figures they cut
      ("team_size" :> Num(Whole(-20))) @@ ("marketing_spend" :> Num(Whole(-60000))),
      \* only figures whose percentage is guarded
      ("monthly_expenses" :> Num(Whole(1000))) @@ ("marketing_spend" :> Num(Whole(500)))
          @@ ("team_size" :> Num(Whole(1))),
      \* text for the identifying fields
      ("id" :> Str("ctx_other")) @@ ("company_id" :> Str("globex")),
      \* a key the schema does not have
      ("headcount" :> Num(Whole(5))),
      \* text where a number is expected
      ("monthly_revenue" :> Str("ten percent more")),
      \* text where a mapping is expected
      ("metadata" :> Str("note")) @@ ("current_cash" :> Num(Whole(100))),
      \* nothing
      EmptyStore }

\* rag_agent.py:94  context.dict()
context_dict(c) ==
    [f \in ContextFields |->
        IF f \in NumericFields THEN Num(c[f])
        ELSE IF f \in TextFields THEN Str(c[f])
        ELSE IF f = "last_updated" THEN Time(c[f])
        ELSE Dict(c[f])]

\* rag_agent.py:97  isinstance(updated_data[key], (int, float))
is_number(v) == v.t = "num"

\* a merge that takes the change as the new value
merged_value_absolute(old, change) == change

\* rag_agent.py:97-100  the new value under a key that changes names
merged_value(old, change) == IF is_number(old) THEN Num(old.n + change.n) ELSE change

\* rag_agent.py:98  number += text raises TypeError
adds_text_to_number(data, changes) ==
    \E k \in DOMAIN changes \cap DOMAIN data : is_number(data[k]) /\ ~is_number(changes[k])

\* a loop that merges every key of the changes
changed_keys_unguarded(data, changes) == DOMAIN changes

\* rag_agent.py:95-96  the keys of the changes that pass `if key in updated_data`
changed_keys(data, changes) == {k \in DOMAIN changes : k \in DOMAIN data}

\* rag_agent.py:97  updated_data[key] raises KeyError on a key the dict lacks
reads_missing_key(data, changes) ==
    \E k \in changed_keys(data, changes) : k \notin DOMAIN data

\* rag_agent.py:94-100
updated_data(c, changes) ==
    [f \in ContextFields |->
        IF f \in changed_keys(context_dict(c), changes)
        THEN merged_value(context_dict(c)[f], changes[f])
        ELSE context_dict(c)[f]]

\* pydantic's int(): the fraction is dropped, towards zero
int_validator(n) == IF n % 2 = 0 THEN n ELSE IF n > 0 THEN n - 1 ELSE n + 1

\* rag_agent.py:102  FinancialContext(**updated_data): what the schema rejects
validation_fails(data) ==
    \/ \E f \in NumericFields : data[f].t # "num"
    \/ \E f \in TextFields : data[f].t # "str"
    \/ data["last_updated"].t # "time"
    \/ data["metadata"].t # "dict"

\* rag_agent.py:102  FinancialContext(**updated_data): the validated record
validated_context(data) ==
    [f \in ContextFields |->
        IF f \in IntFields THEN int_validator(data[f].n)
        ELSE IF f \in FloatFields THEN data[f].n
        ELSE IF f = "last_updated" THEN data[f].n
        ELSE data[f].s]

\* a profit change that leaves the expenses out
calculate_impact_revenue_only(original, updated) ==
    [revenue_change |-> updated.monthly_revenue - original.monthly_revenue,
     expense_change |-> updated.monthly_expenses - original.monthly_expenses,
     marketing_impact |-> updated.marketing_spend - original.marketing_spend,
     runway_impact |-> updated.runway_months - original.runway_months,
     profit_impact |-> updated.monthly_revenue - original.monthly_revenue]

\* rag_agent.py:125-135
calculate_impact(original, updated) ==
    [revenue_change |-> updated.monthly_revenue - original.monthly_revenue,
     expense_change |-> updated.monthly_expenses - original.monthly_expenses,
     marketing_impact |-> updated.marketing_spend - original.marketing_spend,
     runway_impact |-> updated.runway_months - original.runway_months,
     profit_impact |-> (updated.monthly_revenue - updated.monthly_expenses)
                       - (original.monthly_revenue - original.monthly_expenses)]

\* rag_agent.py:162-164  the one percentage that is not guarded
prompt_divides_by_zero(original, updated) ==
    updated.monthly_revenue # original.monthly_revenue /\ original.monthly_revenue = 0

\* what the chat completion call does (llm_rag_agent.py:176-187): an answer, or
\* one of the failures, each with the text of its exception
GenOutcomes ==
    {[ok |-> TRUE, kind |-> "completed", text |-> "## Key Observations"],
     [ok |-> FALSE, kind |-> "exception", text |-> "Connection error."],
     [ok |-> FALSE, kind |-> "timeout", text |-> "Request timed out."],
     [ok |-> FALSE, kind |-> "malformed", text |-> "'NoneType' object has no attribute 'strip'"]}

\* a generate_response without the except clause
generate_response_propagating(outcome) ==
    IF outcome.ok
    THEN [raised |-> FALSE, text |-> <<outcome.text>>]
    ELSE [raised |-> TRUE, text |-> <<outcome.text>>]

\* llm_rag_agent.py:123-195  a text is the sequence of its pieces
generate_response(outcome) ==
    IF outcome.ok
    THEN [raised |-> FALSE, text |-> <<outcome.text>>]
    ELSE [raised |-> FALSE, text |-> <<"Error generating response: ", outcome.text>>]

\* a summary that is the generated text alone
generate_summary_without_heading(original, updated, impact, outcome) ==
    IF prompt_divides_by_zero(original, updated)
    THEN [error |-> "ZeroDivisionError", called |-> FALSE, summary |-> <<>>]
    ELSE [error |-> "none", called |-> TRUE, summary |-> generate_response(outcome).text]

\* what a percentage of the prompt comes to
Percent(change, denominator) == [kind |-> "ratio", num |-> 100 * change, den |-> denominator]
Infinity == [kind |-> "inf", num |-> 0, den |-> 0]
ZeroPercent == [kind |-> "ratio", num |-> 0, den |-> 1]
DivisionFault == [kind |-> "ZeroDivisionError", num |-> 0, den |-> 0]

\* rag_agent.py:162-180  the percentages of the "Proposed Changes" lines: line
\* 164 divides as it is, lines 169, 174 and 179 give float('inf') for a zero
\* original value
proposed_change_percentages(original, updated) ==
    {[line |-> 164, field |-> "monthly_revenue", denominator |-> original.monthly_revenue,
      value |-> IF original.monthly_revenue # 0
                THEN Percent(updated.monthly_revenue - original.monthly_revenue,
                             original.monthly_revenue)
                ELSE DivisionFault] :
        x \in IF updated.monthly_revenue # original.monthly_revenue THEN {1} ELSE {}}
    \cup
    {[line |-> site.line, field |-> site.field, denominator |-> original[site.field],
      value |-> IF original[site.field] # 0
                THEN Percent(updated[site.field] - original[site.field],
                             original[site.field])
                ELSE Infinity] :
        site \in {st \in {[line |-> 169, field |-> "monthly_expenses"],
                          [line |-> 174, field |-> "marketing_spend"],
                          [line |-> 179, field |-> "team_size"]} :
                     updated[st.field] # original[st.field]}}

\* rag_agent.py:186-188  the percentages of the "Impact Analysis" lines: both
\* give 0 for a zero original value
impact_percentages(original, impact) ==
    {[line |-> 187, field |-> "monthly_revenue", denominator |-> original.monthly_revenue,
      value |-> IF original.monthly_revenue # 0
                THEN Percent(impact.revenue_change, original.monthly_revenue)
                ELSE ZeroPercent],
     [line |-> 188, field |-> "monthly_expenses",
      denominator |-> original.monthly_expenses,
      value |-> IF original.monthly_expenses # 0
                THEN Percent(impact.expense_change, original.monthly_expenses)
                ELSE ZeroPercent]}

\* rag_agent.py:137-208
generate_summary(original, updated, impact, outcome) ==
    IF prompt_divides_by_zero(original, updated)
    THEN [error |-> "ZeroDivisionError", called |-> FALSE, summary |-> <<>>]
    ELSE IF generate_response(outcome).raised
    THEN [error |-> "GenerationFailure", called |-> TRUE, summary |-> <<>>]
    ELSE [error |-> "none", called |-> TRUE,
          summary |-> <<"# Financial Impact Analysis", "\n\n">>
                      \o generate_response(outcome).text]

\* an id that does not depend on how many scenarios there are
ScenarioId_reused(n) == <<"scenario_", 1>>

\* an id that does not depend on how many analyses there are
AnalysisId_reused(n) == <<"analysis_", 1>>

\* f"scenario_{n}", f"analysis_{n}"
ScenarioId(n) == <<"scenario_", n>>
AnalysisId(n) == <<"analysis_", n>>

\* a store that keeps the value it already has under a key
Put_keeping_first(d, key, value) == IF key \in DOMAIN d THEN d ELSE (key :> value) @@ d

\* d[key] = value
Put(d, key, value) == (key :> value) @@ d

\* a history mapping with one more entry
Noted(h, key, value) == [k \in DOMAIN h \cup {key} |-> IF k = key THEN value ELSE h[k]]

\* dict.get(key): the value, or None
Get(d, key) == IF key \in DOMAIN d THEN d[key] ELSE None

\* str(e) of each exception analyze_scenario can end with: the text around
\* the one value formatted into it, and that value (the wording of the
\* interpreter's own messages varies with its version)
NoMessage == [text |-> "", value |-> ""]
scenario_not_found(scenario_id) ==
    [text |-> "Scenario {scenario_id} not found", value |-> scenario_id]
context_not_found(company_id) ==
    [text |-> "No financial context found for company {scenario.company_id}",
     value |-> company_id]
type_error_message ==
    [text |-> "unsupported operand type(s) for +=: 'float' and 'str'", value |-> ""]
validation_error_message ==
    [text |-> "validation error for FinancialContext", value |-> ""]
fault_message(error) ==
    IF error = "ZeroDivisionError" THEN [text |-> "float division by zero", value |-> ""]
    ELSE [text |-> error, value |-> ""]

\* how a call ended; `at` is the reading of the clock when it began
Raised(op, arg, error, message, gen) ==
    [op |-> op, arg |-> arg, status |-> "raised", error |-> error, message |-> message,
     gen |-> gen, returned |-> <<>>, at |-> now]
ReturnedFrom(op, arg, gen, value) ==
    [op |-> op, arg |-> arg, status |-> "returned", error |-> "none",
     message |-> NoMessage, gen |-> gen, returned |-> value, at |-> now]

\* rag_agent.py:44-50; the caller of this run submits one of the changes mappings
InitAgent ==
    /\ RunwayIdle
    /\ IndexIdle
    /\ context_store = EmptyStore
    /\ scenario_store = EmptyStore
    /\ analysis_store = EmptyStore
    /\ offered \in ChangeSets
    /\ last = NoCall
    /\ now = Epoch
    /\ response = NoResponse
    /\ issued = <<>>
    /\ upserted = EmptyStore
    /\ generated = EmptyStore
    /\ tasks = [r \in Requests |-> IdleTask]
    /\ running = 0

\* rag_agent.py:63-66; the caller built the context, and read the clock for
\* it if it had to (line 23), before the call
add_financial_context(context) ==
    /\ context_store' = Put(context_store, context.company_id, context)
    /\ last' = ReturnedFrom("add_financial_context", context.company_id, "not_called",
                            context.id)
    /\ upserted' = Noted(upserted, context.company_id, context)
    /\ UNCHANGED <<scenario_store, analysis_store, offered, issued, generated>>
    /\ UNCHANGED <<runwayVars, indexVars, stepVars>>

\* rag_agent.py:68-70
get_financial_context(company_id) ==
    /\ last' = ReturnedFrom("get_financial_context", company_id, "not_called",
                            Get(context_store, company_id))
    /\ UNCHANGED <<context_store, scenario_store, analysis_store, offered, now, issued,
                   upserted, generated>>
    /\ UNCHANGED <<runwayVars, indexVars, stepVars>>

\* rag_agent.py:72-81; line 31: the scenario is stamped with the clock
create_scenario(company_id, changes) ==
    /\ Cardinality(DOMAIN scenario_store) < MaxScenarios
    /\ LET scenario_id == ScenarioId(Cardinality(DOMAIN scenario_store) + 1)
       IN /\ scenario_store' = Put(scenario_store, scenario_id,
                 [scenario_id |-> scenario_id, company_id |-> company_id,
                  changes |-> changes, timestamp |-> now])
          /\ last' = ReturnedFrom("create_scenario", company_id, "not_called", scenario_id)
          /\ issued' = Append(issued, scenario_id)
    /\ now' = now + 1
    /\ UNCHANGED <<context_store, analysis_store, offered, upserted, generated>>
    /\ UNCHANGED <<runwayVars, indexVars, stepVars>>

\* a merge written into the stored context itself
context_store_with_changes_applied(scenario_id) ==
    IF scenario_id \notin DOMAIN scenario_store THEN context_store
    ELSE LET s == scenario_store[scenario_id] IN
         IF s.company_id \notin DOMAIN context_store THEN context_store
         ELSE LET context == context_store[s.company_id] IN
              IF \/ adds_text_to_number(context_dict(context), s.changes)
                 \/ validation_fails(updated_data(context, s.changes))
              THEN context_store
              ELSE Put(context_store, s.company_id,
                       validated_context(updated_data(context, s.changes)))

\* rag_agent.py:89-102  the merge works on context.dict(), a new dict, and its
\* result goes into a new FinancialContext: the context store is only read
context_store_after_analysis(scenario_id) == context_store

\* rag_agent.py:83-123; line 42: the analysis is stamped with the clock; the
\* generation service answers when it is called (line 108)
analyze_scenario(scenario_id) ==
    /\ Cardinality(DOMAIN analysis_store) < MaxAnalyses
    /\ IF scenario_id \notin DOMAIN scenario_store
       THEN \* line 86-87
            /\ last' = Raised("analyze_scenario", scenario_id, "ScenarioNotFound",
                              scenario_not_found(scenario_id), "not_called")
            /\ UNCHANGED <<analysis_store, now, generated>>
       ELSE LET s == scenario_store[scenario_id] IN
       IF Get(context_store, s.company_id) = None
       THEN \* line 90-91
            /\ last' = Raised("analyze_scenario", scenario_id, "ContextNotFound",
                              context_not_found(s.company_id), "not_called")
            /\ UNCHANGED <<analysis_store, now, generated>>
       ELSE LET context == Get(context_store, s.company_id) IN
       IF reads_missing_key(context_dict(context), s.changes)
       THEN \* line 97
            /\ last' = Raised("analyze_scenario", scenario_id, "KeyError",
                              fault_message("KeyError"), "not_called")
            /\ UNCHANGED <<analysis_store, now, generated>>
       ELSE IF adds_text_to_number(context_dict(context), s.changes)
       THEN \* line 98
            /\ last' = Raised("analyze_scenario", scenario_id, "TypeError",
                              type_error_message, "not_called")
            /\ UNCHANGED <<analysis_store, now, generated>>
       ELSE IF validation_fails(updated_data(context, s.changes))
       THEN \* line 102
            /\ last' = Raised("analyze_scenario", scenario_id, "ValidationError",
                              validation_error_message, "not_called")
            /\ UNCHANGED <<analysis_store, now, generated>>
       ELSE \E outcome \in GenOutcomes :
            LET updated_context == validated_context(updated_data(context, s.changes))
                impact == calculate_impact(context, updated_context)
                made == generate_summary(context, updated_context, impact, outcome)
                gen == IF made.called THEN outcome.kind ELSE "not_called"
                analysis_id == AnalysisId(Cardinality(DOMAIN analysis_store) + 1)
            IN IF made.error # "none"
               THEN \* line 108: the exception leaves analyze_scenario
                    /\ last' = Raised("analyze_scenario", scenario_id, made.error,
                                      fault_message(made.error), gen)
                    /\ UNCHANGED <<analysis_store, now, generated>>
               ELSE \* line 110-123
                    /\ analysis_store' = Put(analysis_store, analysis_id,
                           [analysis_id |-> analysis_id, scenario_id |-> scenario_id,
                            company_id |-> s.company_id, original_context |-> context,
                            updated_context |-> updated_context,
                            impact_analysis |-> impact, summary |-> made.summary,
                            created_at |-> now])
                    /\ last' = ReturnedFrom("analyze_scenario", scenario_id, gen,
                                            analysis_id)
                    /\ now' = now + 1
                    /\ generated' = Noted(generated, analysis_id, gen)
    /\ context_store' = context_store_after_analysis(scenario_id)
    /\ UNCHANGED <<scenario_store, offered, issued, upserted>>
    /\ UNCHANGED <<runwayVars, indexVars, stepVars>>

\* an except clause that takes no exception for a ValueError
is_ValueError_never(error) == FALSE

\* rag.py:70,91  except ValueError: the two errors analyze_scenario raises
\* itself, and pydantic's ValidationError, which is a ValueError
is_ValueError(error) == error \in {"ScenarioNotFound", "ContextNotFound", "ValidationError"}

\* rag.py:70-73, 91-94
http_exception(endpoint, call) ==
    [endpoint |-> endpoint,
     status_code |-> IF is_ValueError(call.error) THEN 404 ELSE 500,
     detail |-> call.message, body |-> <<>>]

\* datetime.isoformat()
isoformat(t) == <<"iso", t>>

\* rag.py:58-69  the analysis as a dict, its datetimes as text
analysis_body(a) ==
    [a EXCEPT !.created_at = isoformat(a.created_at),
              !.original_context.last_updated = isoformat(a.original_context.last_updated),
              !.updated_context.last_updated = isoformat(a.updated_context.last_updated)]

\* rag.py:84-90
summary_body(a) ==
    [summary |-> a.summary, scenario_id |-> a.scenario_id, company_id |-> a.company_id,
     created_at |-> isoformat(a.created_at)]

\* rag.py:48-73  GET /analyze/{scenario_id}
analyze_scenario_endpoint(scenario_id) ==
    /\ analyze_scenario(scenario_id)
    /\ response' = IF last'.status = "returned"
                   THEN [endpoint |-> "analyze", status_code |-> 200, detail |-> NoMessage,
                         body |-> analysis_body(analysis_store'[last'.returned])]
                   ELSE http_exception("analyze", last')

\* rag.py:75-94  GET /summary/{scenario_id}
get_analysis_summary(scenario_id) ==
    /\ analyze_scenario(scenario_id)
    /\ response' = IF last'.status = "returned"
                   THEN [endpoint |-> "summary", status_code |-> 200, detail |-> NoMessage,
                         body |-> summary_body(analysis_store'[last'.returned])]
                   ELSE http_exception("summary", last')

ScenarioIds == {ScenarioId(n) : n \in 1 .. MaxScenarios + 1}

\* the agent called directly, as the tests call it
Next ==
    \/ \E context \in Contexts :
           add_financial_context(context) /\ now' = now /\ response' = NoResponse
    \/ \E company_id \in Companies :
           create_scenario(company_id, offered) /\ response' = NoResponse
    \/ \E company_id \in Companies :
           get_financial_context(company_id) /\ response' = NoResponse
    \/ \E scenario_id \in ScenarioIds : analyze_scenario(scenario_id) /\ response' = NoResponse

Spec == InitAgent /\ [][Next]_vars

\* analyses requested over HTTP (rag.py:9, the module's one agent)
NextApi ==
    \/ \E context \in Contexts :
           add_financial_context(context) /\ now' = now /\ response' = NoResponse
    \/ \E company_id \in Companies :
           create_scenario(company_id, offered) /\ response' = NoResponse
    \/ \E scenario_id \in ScenarioIds : analyze_scenario_endpoint(scenario_id)
    \/ \E scenario_id \in ScenarioIds : get_analysis_summary(scenario_id)

SpecApi == InitAgent /\ [][NextApi]_vars

(***************************************************************************)
(* The context endpoint (rag.py:11-33).  A payload is the JSON object of   *)
(* the request: a mapping from keys to values.                             *)
(***************************************************************************)
MaxStamps == 2

Without(data, keys) == [k \in DOMAIN data \ keys |-> data[k]]

\* the request bodies clients send
Payloads ==
    {context_dict(TestContext("test_company_123")),
     Without(context_dict(TestContext("test_company_123")), {"id"}),
     Without(context_dict(ZeroContext("globex")), {"id", "last_updated", "metadata"}),
     Without(context_dict(TestContext("globex")), {"company_id"}),
     Without(context_dict(TestContext("globex")), {"id", "company_id"}),
     Without(context_dict(TestContext("globex")), {"id", "monthly_revenue", "last_updated"}),
     ("team_size" :> Str("ten")) @@ Without(context_dict(TestContext("globex")), {"id"})}

\* uuid.uuid4().hex[:8] after "ctx_"
GeneratedIds == {"ctx_0f9e8d7c", "ctx_a1b2c3d4"}

\* a handler that leaves the payload as it came
with_generated_id_dropped(data, fresh_id) == data

\* rag.py:18-19
with_generated_id(data, fresh_id) ==
    IF "id" \in DOMAIN data THEN data ELSE ("id" :> Str(fresh_id)) @@ data

\* rag_agent.py:23-24  the fields that have a default
DefaultedFields == {"last_updated", "metadata"}

\* rag_agent.py:23  default_factory runs when the payload has no last_updated
reads_clock(data) == "last_updated" \notin DOMAIN data

\* rag.py:26  FinancialContext(**context_data): the payload with the defaults
\* of the fields it leaves out; keys outside the schema are dropped
with_defaults(data, utcnow) ==
    [f \in (DOMAIN data \cap ContextFields) \cup DefaultedFields |->
        IF f \in DOMAIN data THEN data[f]
        ELSE IF f = "last_updated" THEN Time(utcnow) ELSE Dict("{}")]

\* rag.py:26  what the schema rejects: a required field left out, or a value of
\* the wrong type
payload_rejected(data) ==
    \/ \E f \in ContextFields \ DefaultedFields : f \notin DOMAIN data
    \/ validation_fails(with_defaults(data, now))

company_id_required == [text |-> "company_id is required", value |-> ""]

\* rag.py:32-33
bad_request(context_data, message) ==
    [endpoint |-> "context", request |-> context_data, status_code |-> 400,
     detail |-> message, body |-> <<>>]

\* rag.py:11-33  POST /context
update_financial_context(context_data, fresh_id) ==
    LET data == with_generated_id(context_data, fresh_id)
    IN IF "company_id" \notin DOMAIN data
       THEN \* line 22-23
            /\ response' = bad_request(context_data, company_id_required)
            /\ UNCHANGED <<context_store, scenario_store, analysis_store, offered, last,
                           now, issued, upserted, generated>>
            /\ UNCHANGED <<runwayVars, indexVars, stepVars>>
       ELSE /\ reads_clock(data) => now < Epoch + MaxStamps
            /\ now' = IF reads_clock(data) THEN now + 1 ELSE now
            /\ IF payload_rejected(data)
               THEN \* line 26
                    /\ response' = bad_request(context_data, validation_error_message)
                    /\ UNCHANGED <<context_store, scenario_store, analysis_store, offered,
                                   last, issued, upserted, generated>>
                    /\ UNCHANGED <<runwayVars, indexVars, stepVars>>
               ELSE \* line 26-31
                    LET context == validated_context(with_defaults(data, now))
                    IN /\ add_financial_context(context)
                       /\ response' = [endpoint |-> "context", request |-> context_data,
                                       status_code |-> 200, detail |-> NoMessage,
                                       body |-> [status |-> "success",
                                                 context_id |-> context.id]]

\* rag.py:9  the module's agent, as constructed
InitContextApi ==
    /\ RunwayIdle
    /\ IndexIdle
    /\ AgentIdle

\* contexts sent over HTTP and read back from the agent
NextContextApi ==
    \/ \E context_data \in Payloads, fresh_id \in GeneratedIds :
           update_financial_context(context_data, fresh_id)
    \/ \E company_id \in Companies :
           get_financial_context(company_id) /\ response' = NoResponse

SpecContextApi == InitContextApi /\ [][NextContextApi]_vars

\* ---------------------------------------------------------------------------
\* The scenario handlers on the event loop, statement by statement
\* (rag.py:35-73 calling rag_agent.py:72-123; main.py serves them with one
\* event loop and the repository starts no thread)
\* ---------------------------------------------------------------------------

\* the changes the requests of this specification submit: those with a change
\* of the monthly revenue, as numbers and as text
StepChangeSets == {cs \in ChangeSets : "monthly_revenue" \in DOMAIN cs}

\* the contexts stored meanwhile: those of the company of the tests
StepContexts == {c \in Contexts : c.company_id = "test_company_123"}

\* what the generation service does in this specification: an answer or a timeout
StepOutcomes == {o \in GenOutcomes : o.kind \in {"completed", "timeout"}}

\* a request that was sent and has not been answered
in_flight(t) == t.pc \notin {"idle", "done"}

\* a handler that gives up the event loop after every statement, as a handler
\* run on a thread of its own would
suspends_after_every_statement(pc) == TRUE

\* rag.py:35-73  both handlers are `async def` and neither body has an await:
\* once started a handler keeps the event loop until it returns or raises
suspends(pc) == FALSE

\* a generation that is called again when it failed
retries_generation_on_failure(outcome) == ~outcome.ok

\* rag_agent.py:194 and llm_rag_agent.py:176-195  one call, in no loop; the
\* except clause at 193-195 returns the error text
retries_generation(outcome) == FALSE

\* an analysis that is stored before its summary is made
next_statement_storing_early(pc) ==
    CASE pc = "lookup_scenario" -> "lookup_context"
      [] pc = "lookup_context" -> "merge"
      [] pc = "merge" -> "impact"
      [] pc = "impact" -> "record"
      [] pc = "record" -> "store"
      [] pc = "store" -> "prompt"
      [] pc = "prompt" -> "generate"
      [] pc = "generate" -> "return"
      [] pc = "new_scenario" -> "keep_scenario"
      [] pc = "keep_scenario" -> "return_id"

\* rag_agent.py:85-123  the statements of analyze_scenario in their order, and
\* rag_agent.py:74-81  those of create_scenario
next_statement(pc) ==
    CASE pc = "lookup_scenario" -> "lookup_context"
      [] pc = "lookup_context" -> "merge"
      [] pc = "merge" -> "impact"
      [] pc = "impact" -> "prompt"
      [] pc = "prompt" -> "generate"
      [] pc = "generate" -> "record"
      [] pc = "record" -> "store"
      [] pc = "store" -> "return"
      [] pc = "new_scenario" -> "keep_scenario"
      [] pc = "keep_scenario" -> "return_id"

\* rag.py:38 and rag.py:51  the first statement of each handler
first_statement(op) ==
    IF op = "create_scenario" THEN "new_scenario" ELSE "lookup_scenario"

\* the handler of request r can execute its next statement: it holds the
\* event loop, or it had suspended and the loop is free
has_loop(r) ==
    \/ running = r
    \/ running = 0 /\ tasks[r].pc \notin {"idle", "pending", "done"}

\* who holds the event loop after the statement at pc
loop_after(r, pc) == IF suspends(pc) THEN 0 ELSE r

\* the answered request: what the client can see of it
Done(t, status, error) ==
    [IdleTask EXCEPT !.pc = "done", !.op = t.op, !.arg = t.arg,
                     !.overlapped = t.overlapped, !.id = t.id, !.status = status,
                     !.error = error]

\* the handler of r goes on to its next statement with its locals as in t
Advance(r, t) ==
    /\ tasks' = [tasks EXCEPT ![r] = [t EXCEPT !.pc = next_statement(tasks[r].pc)]]
    /\ running' = loop_after(r, tasks[r].pc)

\* rag.py:45-46 and rag.py:70-73  the exception ends the handler
Fail(r, error) ==
    /\ tasks' = [tasks EXCEPT ![r] = Done(tasks[r], "raised", error)]
    /\ running' = 0

\* nothing but the handler's own position and locals changes
OnlyTask ==
    /\ UNCHANGED <<context_store, scenario_store, analysis_store, offered, last, now,
                   response, issued, upserted, generated>>
    /\ UNCHANGED <<runwayVars, indexVars>>

\* the requests for an operation that are open
OpenRequests(op) == {q \in Requests : in_flight(tasks[q]) /\ tasks[q].op = op}

\* a client sends a request, its first or the one after an answer, while its
\* other requests may be open
SendRequest(r, op, arg) ==
    /\ ~in_flight(tasks[r])
    /\ op = "create_scenario" =>
           Cardinality(DOMAIN scenario_store) + Cardinality(OpenRequests(op)) < MaxScenarios
    /\ op = "analyze_scenario" =>
           Cardinality(DOMAIN analysis_store) + Cardinality(OpenRequests(op)) < MaxAnalyses
    /\ LET overlaps == \E q \in Requests \ {r} : in_flight(tasks[q])
       IN tasks' = [q \in Requests |->
                       IF q = r
                       THEN [IdleTask EXCEPT !.pc = "pending", !.op = op, !.arg = arg,
                                             !.overlapped = overlaps]
                       ELSE IF in_flight(tasks[q])
                       THEN [tasks[q] EXCEPT !.overlapped = TRUE]
                       ELSE tasks[q]]
    /\ UNCHANGED running
    /\ OnlyTask

\* the event loop is free and starts the handler of an open request
Dispatch(r) ==
    /\ running = 0
    /\ tasks[r].pc = "pending"
    /\ tasks' = [tasks EXCEPT ![r] = [tasks[r] EXCEPT !.pc = first_statement(tasks[r].op),
                                                      !.seen = analysis_store]]
    /\ running' = r
    /\ OnlyTask

\* rag_agent.py:74-79, line 31: the id from the size of the store, and the
\* scenario with the clock's stamp
NewScenario(r) ==
    /\ has_loop(r)
    /\ tasks[r].pc = "new_scenario"
    /\ LET scenario_id == ScenarioId(Cardinality(DOMAIN scenario_store) + 1)
       IN Advance(r, [tasks[r] EXCEPT
              !.id = scenario_id,
              !.record = [scenario_id |-> scenario_id, company_id |-> tasks[r].arg,
                          changes |-> offered, timestamp |-> now]])
    /\ now' = now + 1
    /\ UNCHANGED <<context_store, scenario_store, analysis_store, offered, last,
                   response, issued, upserted, generated>>
    /\ UNCHANGED <<runwayVars, indexVars>>

\* rag_agent.py:80
KeepScenario(r) ==
    /\ has_loop(r)
    /\ tasks[r].pc = "keep_scenario"
    /\ scenario_store' = Put(scenario_store, tasks[r].id, tasks[r].record)
    /\ issued' = Append(issued, tasks[r].id)
    /\ Advance(r, tasks[r])
    /\ UNCHANGED <<context_store, analysis_store, offered, last, now, response,
                   upserted, generated>>
    /\ UNCHANGED <<runwayVars, indexVars>>

\* rag_agent.py:81 and rag.py:44
ReturnId(r) ==
    /\ has_loop(r)
    /\ tasks[r].pc = "return_id"
    /\ tasks' = [tasks EXCEPT ![r] = Done(tasks[r], "returned", "none")]
    /\ running' = 0
    /\ OnlyTask

\* rag_agent.py:85-87
LookupScenario(r) ==
    /\ has_loop(r)
    /\ tasks[r].pc = "lookup_scenario"
    /\ IF tasks[r].arg \notin DOMAIN scenario_store
       THEN Fail(r, "ScenarioNotFound")
       ELSE Advance(r, [tasks[r] EXCEPT !.scenario = scenario_store[tasks[r].arg]])
    /\ OnlyTask

\* rag_agent.py:89-91
LookupContext(r) ==
    /\ has_loop(r)
    /\ tasks[r].pc = "lookup_context"
    /\ IF Get(context_store, tasks[r].scenario.company_id) = None
       THEN Fail(r, "ContextNotFound")
       ELSE Advance(r, [tasks[r] EXCEPT
                !.context = context_store[tasks[r].scenario.company_id]])
    /\ OnlyTask

\* rag_agent.py:94-102
Merge(r) ==
    /\ has_loop(r)
    /\ tasks[r].pc = "merge"
    /\ LET context == tasks[r].context
           changes == tasks[r].scenario.changes
       IN IF reads_missing_key(context_dict(context), changes)
          THEN Fail(r, "KeyError")
          ELSE IF adds_text_to_number(context_dict(context), changes)
          THEN Fail(r, "TypeError")
          ELSE IF validation_fails(updated_data(context, changes))
          THEN Fail(r, "ValidationError")
          ELSE Advance(r, [tasks[r] EXCEPT
                   !.updated_context = validated_context(updated_data(context, changes))])
    /\ OnlyTask

\* rag_agent.py:105
Impact(r) ==
    /\ has_loop(r)
    /\ tasks[r].pc = "impact"
    /\ Advance(r, [tasks[r] EXCEPT
           !.impact = calculate_impact(tasks[r].context, tasks[r].updated_context),
           !.log = Append(@, [event |-> "impact", kind |-> "none"])])
    /\ OnlyTask

\* rag_agent.py:139-191  the prompt, with the division of line 164
BuildPrompt(r) ==
    /\ has_loop(r)
    /\ tasks[r].pc = "prompt"
    /\ IF prompt_divides_by_zero(tasks[r].context, tasks[r].updated_context)
       THEN Fail(r, "ZeroDivisionError")
       ELSE Advance(r, tasks[r])
    /\ OnlyTask

\* rag_agent.py:194-208  the call of the generation service, which answers or
\* fails, and the summary made of what generate_response returned
Generate(r) ==
    /\ has_loop(r)
    /\ tasks[r].pc = "generate"
    /\ \E outcome \in StepOutcomes :
          LET made == generate_summary(tasks[r].context, tasks[r].updated_context,
                                       tasks[r].impact, outcome)
              called == [tasks[r] EXCEPT
                            !.log = Append(@, [event |-> "generate",
                                               kind |-> outcome.kind])]
          IN IF retries_generation(outcome)
             THEN /\ tasks' = [tasks EXCEPT ![r] = called]
                  /\ running' = loop_after(r, "generate")
             ELSE IF made.error # "none"
             THEN /\ tasks' = [tasks EXCEPT ![r] = Done(called, "raised", made.error)]
                  /\ running' = 0
             ELSE Advance(r, [called EXCEPT !.summary = made.summary])
    /\ OnlyTask

\* rag_agent.py:111-120, line 42: the id from the size of the store, and the
\* analysis with the clock's stamp
Record(r) ==
    /\ has_loop(r)
    /\ tasks[r].pc = "record"
    /\ LET analysis_id == AnalysisId(Cardinality(DOMAIN analysis_store) + 1)
       IN Advance(r, [tasks[r] EXCEPT
              !.id = analysis_id,
              !.record = [analysis_id |-> analysis_id, scenario_id |-> tasks[r].arg,
                          company_id |-> tasks[r].scenario.company_id,
                          original_context |-> tasks[r].context,
                          updated_context |-> tasks[r].updated_context,
                          impact_analysis |-> tasks[r].impact,
                          summary |-> tasks[r].summary, created_at |-> now]])
    /\ now' = now + 1
    /\ UNCHANGED <<context_store, scenario_store, analysis_store, offered, last,
                   response, issued, upserted, generated>>
    /\ UNCHANGED <<runwayVars, indexVars>>

\* what the generation calls of a handler came to
generation_of(log) ==
    IF \E i \in 1 .. Len(log) : log[i].event = "generate"
    THEN log[CHOOSE i \in 1 .. Len(log) :
                 /\ log[i].event = "generate"
                 /\ \A j \in i + 1 .. Len(log) : log[j].event # "generate"].kind
    ELSE "not_called"

\* rag_agent.py:122
Store(r) ==
    /\ has_loop(r)
    /\ tasks[r].pc = "store"
    /\ analysis_store' = Put(analysis_store, tasks[r].id, tasks[r].record)
    /\ generated' = Noted(generated, tasks[r].id, generation_of(tasks[r].log))
    /\ Advance(r, [tasks[r] EXCEPT !.log = Append(@, [event |-> "store", kind |-> "none"])])
    /\ UNCHANGED <<context_store, scenario_store, offered, last, now, response, issued,
                   upserted>>
    /\ UNCHANGED <<runwayVars, indexVars>>

\* rag_agent.py:123 and rag.py:56-69
Return(r) ==
    /\ has_loop(r)
    /\ tasks[r].pc = "return"
    /\ tasks' = [tasks EXCEPT ![r] = Done(tasks[r], "returned", "none")]
    /\ running' = 0
    /\ OnlyTask

\* rag_agent.py:63-66  a context is stored while no handler holds the loop
StoreContext(context) ==
    /\ running = 0
    /\ add_financial_context(context)
    /\ now' = now
    /\ response' = NoResponse

InitSteps == InitAgent /\ offered \in StepChangeSets

NextSteps ==
    \/ \E context \in StepContexts : StoreContext(context)
    \/ \E r \in Requests, company_id \in Companies :
           SendRequest(r, "create_scenario", company_id)
    \/ \E r \in Requests, scenario_id \in ScenarioIds :
           SendRequest(r, "analyze_scenario", scenario_id)
    \/ \E r \in Requests : Dispatch(r)
    \/ \E r \in Requests : NewScenario(r)
    \/ \E r \in Requests : KeepScenario(r)
    \/ \E r \in Requests : ReturnId(r)
    \/ \E r \in Requests : LookupScenario(r)
    \/ \E r \in Requests : LookupContext(r)
    \/ \E r \in Requests : Merge(r)
    \/ \E r \in Requests : Impact(r)
    \/ \E r \in Requests : BuildPrompt(r)
    \/ \E r \in Requests : Generate(r)
    \/ \E r \in Requests : Record(r)
    \/ \E r \in Requests : Store(r)
    \/ \E r \in Requests : Return(r)

SpecSteps == InitSteps /\ [][NextSteps]_vars

(***************************************************************************)
(* Properties of the scenario engine                                       *)
(***************************************************************************)
Analyses == {analysis_store[id] : id \in DOMAIN analysis_store}
ChangesOf(a) == scenario_store[a.scenario_id].changes
OnlyNumericChanges(changes) ==
    /\ DOMAIN changes \subseteq NumericFields
    /\ \A f \in DOMAIN changes : changes[f].t = "num"

\* C1: in every analysis of a scenario whose changes name only numeric
\* fields, each changed field of the updated context is the original field
\* plus the change amount, and every other field is the original's.
C1_MergeIsAdditive ==
    \A a \in Analyses :
        OnlyNumericChanges(ChangesOf(a)) =>
            \A f \in ContextFields :
                a.updated_context[f] =
                    IF f \in DOMAIN ChangesOf(a)
                    THEN a.original_context[f] + ChangesOf(a)[f].n
                    ELSE a.original_context[f]

\* C2: the impact record of every analysis is made of the differences between
\* the two contexts recorded in that analysis, the profit impact being the
\* change of revenue minus expenses.
C2_ImpactFromRecordedContexts ==
    \A a \in Analyses :
        LET o == a.original_context
            u == a.updated_context
            i == a.impact_analysis
        IN /\ i.revenue_change = u.monthly_revenue - o.monthly_revenue
           /\ i.expense_change = u.monthly_expenses - o.monthly_expenses
           /\ i.marketing_impact = u.marketing_spend - o.marketing_spend
           /\ i.runway_impact = u.runway_months - o.runway_months
           /\ i.profit_impact = (u.monthly_revenue - u.monthly_expenses)
                                - (o.monthly_revenue - o.monthly_expenses)

\* the test scenario on the test context: revenue +100000, expenses +50000
C2_Witness ==
    \E a \in Analyses :
        /\ a.original_context = TestContext("test_company_123")
        /\ a.impact_analysis.revenue_change = Whole(100000)
        /\ a.impact_analysis.expense_change = Whole(50000)
        /\ a.impact_analysis.profit_impact = Whole(50000)

GenerationFailures == {"exception", "timeout", "malformed"}
LastAnalyzeFailedToGenerate ==
    last.op = "analyze_scenario" /\ last.gen \in GenerationFailures
NonEmptyText(text) == \E i \in 1 .. Len(text) : text[i] # ""

\* C3: when the generation call fails, analyze_scenario still returns; the
\* analysis is stored, its summary is not empty and its impact numbers are
\* those of every other analysis of the same scenario on the same context,
\* whatever the generation call did there.
C3_GenerationFailureDegrades ==
    LastAnalyzeFailedToGenerate =>
        /\ last.status = "returned"
        /\ last.returned \in DOMAIN analysis_store
        /\ LET a == analysis_store[last.returned]
           IN /\ a.scenario_id = last.arg
              /\ NonEmptyText(a.summary)
              /\ \A b \in Analyses :
                     (b.scenario_id = a.scenario_id
                      /\ b.original_context = a.original_context)
                         => b.impact_analysis = a.impact_analysis

\* a timed-out analysis stored after a completed one of the same scenario
C3_Witness ==
    /\ LastAnalyzeFailedToGenerate
    /\ last.gen = "timeout"
    /\ last.returned = AnalysisId(2)
    /\ AnalysisId(1) \in DOMAIN analysis_store
    /\ analysis_store[AnalysisId(1)].summary[3] = "## Key Observations"
    /\ analysis_store[AnalysisId(1)].scenario_id = analysis_store[AnalysisId(2)].scenario_id
    /\ analysis_store[AnalysisId(1)].original_context
           = analysis_store[AnalysisId(2)].original_context
    /\ analysis_store[AnalysisId(2)].impact_analysis.profit_impact # 0

LastAnalyze == last.op = "analyze_scenario"
LastAnalyzeOfStored == LastAnalyze /\ last.arg \in DOMAIN scenario_store
LastScenario == scenario_store[last.arg]

\* C11: an analyze_scenario call whose scenario id is not in the scenario
\* store raises the not-found error whose message carries that id, the
\* analyze and the summary endpoint answer it with 404, and the call leaves
\* the context, scenario and analysis stores as they were.
C11_UnknownScenarioIsNotFound ==
    [][(last'.op = "analyze_scenario" /\ last'.arg \notin DOMAIN scenario_store) =>
           /\ last'.status = "raised"
           /\ last'.error = "ScenarioNotFound"
           /\ last'.message.value = last'.arg
           /\ response'.endpoint \in {"analyze", "summary"}
           /\ response'.status_code = 404
           /\ response'.detail = last'.message
           /\ UNCHANGED <<context_store, scenario_store, analysis_store>>]_vars

\* the summary endpoint was asked for scenario_2 when only scenario_1 exists
\* and one analysis is stored
C11_Witness ==
    /\ LastAnalyze
    /\ last.arg = ScenarioId(2)
    /\ last.error = "ScenarioNotFound"
    /\ response.endpoint = "summary"
    /\ response.status_code = 404
    /\ DOMAIN scenario_store = {ScenarioId(1)}
    /\ DOMAIN analysis_store = {AnalysisId(1)}

\* C12: create_scenario returns whether or not the company has a context; an
\* analyze_scenario call on a stored scenario with numeric changes raises the
\* not-found error carrying the company id while the context store has no
\* context for the scenario's company, and returns an analysis when it has one.
C12_AnalyzeSucceedsOnceContextExists ==
    /\ last.op = "create_scenario" => last.status = "returned"
    /\ (LastAnalyzeOfStored /\ OnlyNumericChanges(LastScenario.changes)) =>
           IF LastScenario.company_id \notin DOMAIN context_store
           THEN /\ last.status = "raised"
                /\ last.error = "ContextNotFound"
                /\ last.message.value = LastScenario.company_id
           ELSE last.status = "returned"

\* C13: the scenario ids create_scenario has returned so far are pairwise
\* different, and right after a create_scenario call the scenario store holds,
\* under the id just returned, a scenario with the company id and the changes
\* the call was given.
C13_FreshScenarioIds ==
    /\ \A i, j \in 1 .. Len(issued) : i # j => issued[i] # issued[j]
    /\ last.op = "create_scenario" =>
           /\ last.status = "returned"
           /\ last.returned = issued[Len(issued)]
           /\ last.returned \in DOMAIN scenario_store
           /\ scenario_store[last.returned].scenario_id = last.returned
           /\ scenario_store[last.returned].company_id = last.arg
           /\ scenario_store[last.returned].changes = offered

\* a second scenario was just created, for another company than the first
C13_Witness ==
    /\ last.op = "create_scenario"
    /\ Len(issued) = 2
    /\ last.returned = ScenarioId(2)
    /\ scenario_store[ScenarioId(1)].company_id # scenario_store[ScenarioId(2)].company_id

\* C14: the context store holds, for each company, exactly the context most
\* recently given to add_financial_context and nothing for any other company;
\* get_financial_context returns that context, and returns None without
\* raising for a company that never had one.
C14_LatestContextWins ==
    /\ DOMAIN context_store = DOMAIN upserted
    /\ \A c \in DOMAIN upserted : context_store[c] = upserted[c]
    /\ last.op = "get_financial_context" =>
           /\ last.status = "returned"
           /\ last.returned = IF last.arg \in DOMAIN upserted
                              THEN upserted[last.arg] ELSE None

\* get_financial_context returns the all-zero context of a company one of
\* whose analyses was made on the test context stored before it
C14_Witness ==
    /\ last.op = "get_financial_context"
    /\ last.arg = "test_company_123"
    /\ last.returned = ZeroContext("test_company_123")
    /\ \E a \in Analyses : a.original_context = TestContext("test_company_123")

\* C15: no analyze_scenario call ends with a ZeroDivisionError.
C15_NoDivisionByZero ==
    LastAnalyze => last.error # "ZeroDivisionError"

\* C16: two stored analyses whose generation calls failed and which have the
\* same original context and the same changes carry the same summary.
C16_FailedGenerationSummariesAgree ==
    \A x, y \in DOMAIN analysis_store :
        (/\ generated[x] \in GenerationFailures
         /\ generated[y] \in GenerationFailures
         /\ analysis_store[x].original_context = analysis_store[y].original_context
         /\ ChangesOf(analysis_store[x]) = ChangesOf(analysis_store[y]))
            => analysis_store[x].summary = analysis_store[y].summary

\* C17: however the upserts fall between the creation of a scenario with
\* numeric changes and the request to analyse it, the request ends either
\* with the not-found answer for a company without context or with a whole
\* analysis: one of the contexts upserted for the company as its original,
\* the updated context and the impact computed from that original, a summary.
C17_AnalyzeNeverCrashesOrTears ==
    (LastAnalyzeOfStored /\ OnlyNumericChanges(LastScenario.changes)) =>
        \/ /\ last.status = "raised"
           /\ last.error = "ContextNotFound"
           /\ response.status_code = 404
        \/ /\ last.status = "returned"
           /\ response.status_code = 200
           /\ LET a == analysis_store[last.returned]
              IN /\ a.original_context \in Contexts
                 /\ a.original_context.company_id = LastScenario.company_id
                 /\ a.company_id = LastScenario.company_id
                 /\ a.scenario_id = last.arg
                 /\ a.updated_context =
                        validated_context(updated_data(a.original_context,
                                                       LastScenario.changes))
                 /\ a.impact_analysis =
                        calculate_impact(a.original_context, a.updated_context)
                 /\ NonEmptyText(a.summary)

\* a replacement value, which overwrites whatever the original had
Replaced(changes, f) == f \in DOMAIN changes /\ f \notin NumericFields

\* C18: the original context of the analysis just returned is the context the
\* store holds for the scenario's company; and two analyses of one scenario
\* differ in their updated contexts in every field in which their original
\* contexts differ, unless the scenario replaces that field.
C18_OriginalIsContextAtAnalysis ==
    /\ (LastAnalyze /\ last.status = "returned") =>
           analysis_store[last.returned].original_context
               = context_store[LastScenario.company_id]
    /\ \A a, b \in Analyses :
           a.scenario_id = b.scenario_id =>
               \A f \in ContextFields :
                   (a.original_context[f] # b.original_context[f]
                    /\ ~Replaced(ChangesOf(a), f))
                       => a.updated_context[f] # b.updated_context[f]

\* scenario_1 was created while the test context was stored, analysed, and
\* analysed again after the all-zero context was upserted
C18_Witness ==
    /\ LastAnalyze
    /\ last.returned = AnalysisId(2)
    /\ AnalysisId(1) \in DOMAIN analysis_store
    /\ analysis_store[AnalysisId(1)].scenario_id = ScenarioId(1)
    /\ analysis_store[AnalysisId(2)].scenario_id = ScenarioId(1)
    /\ analysis_store[AnalysisId(1)].original_context = TestContext("test_company_123")
    /\ analysis_store[AnalysisId(2)].original_context = ZeroContext("test_company_123")
    /\ scenario_store[ScenarioId(1)].timestamp < analysis_store[AnalysisId(1)].created_at
    /\ analysis_store[AnalysisId(1)].updated_context.team_size
           # analysis_store[AnalysisId(2)].updated_context.team_size

\* C19: the updated context of every analysis has the id and the company id
\* of its original context.
C19_UpdatedKeepsIdentity ==
    \A a \in Analyses :
        /\ a.updated_context.id = a.original_context.id
        /\ a.updated_context.company_id = a.original_context.company_id

\* C20: the last-updated timestamp of the updated context of the analysis
\* just returned was read from the clock during that analyze_scenario call:
\* not before the call began, not after the analysis was stamped.
C20_UpdatedTimestampIsRefreshed ==
    (LastAnalyze /\ last.status = "returned") =>
        LET a == analysis_store[last.returned]
        IN /\ a.updated_context.last_updated >= last.at
           /\ a.updated_context.last_updated <= a.created_at

RecordedContexts ==
    {context_store[c] : c \in DOMAIN context_store}
        \cup {a.original_context : a \in Analyses}
        \cup {a.updated_context : a \in Analyses}

\* C21: in every context of the context store and in the original and the
\* updated context of every analysis, team_size and units_sold are whole
\* numbers and not negative.
C21_HeadcountsAreNaturals ==
    \A c \in RecordedContexts :
        \A f \in IntFields : c[f] % 2 = 0 /\ c[f] >= 0

AnalyzeReturns == last'.op = "analyze_scenario" /\ last'.status = "returned"

\* C22: every step keeps each stored analysis under its id as it was; a
\* returning analyze_scenario call, behind either endpoint, adds one analysis
\* under the id it returns, which was not in the store; no other step
\* changes the analysis store.
C22_AnalysisStoreAppendOnly ==
    [][/\ \A id \in DOMAIN analysis_store :
              id \in DOMAIN analysis_store' /\ analysis_store'[id] = analysis_store[id]
       /\ AnalyzeReturns =>
              /\ response'.endpoint \in {"analyze", "summary"}
              /\ last'.returned \notin DOMAIN analysis_store
              /\ DOMAIN analysis_store' = DOMAIN analysis_store \cup {last'.returned}
              /\ analysis_store'[last'.returned].analysis_id = last'.returned
       /\ ~AnalyzeReturns => analysis_store' = analysis_store]_vars

\* the summary endpoint stored analysis_2 next to analysis_1
C22_Witness ==
    /\ LastAnalyze
    /\ last.status = "returned"
    /\ last.returned = AnalysisId(2)
    /\ response.endpoint = "summary"
    /\ response.status_code = 200
    /\ DOMAIN analysis_store = {AnalysisId(1), AnalysisId(2)}
    /\ analysis_store[AnalysisId(1)].created_at < analysis_store[AnalysisId(2)].created_at

Contains(text, piece) == \E i \in 1 .. Len(text) : text[i] = piece

\* C24: the summary of every stored analysis, and so of every analysis
\* analyze_scenario returned, contains the heading "# Financial Impact
\* Analysis", whether the generation call completed or failed.
C24_SummaryHasHeading ==
    \A a \in Analyses : Contains(a.summary, "# Financial Impact Analysis")

\* one analysis whose generation completed and one whose generation timed out
C24_Witness ==
    /\ DOMAIN analysis_store = {AnalysisId(1), AnalysisId(2)}
    /\ generated[AnalysisId(1)] = "completed"
    /\ generated[AnalysisId(2)] = "timeout"
    /\ Contains(analysis_store[AnalysisId(1)].summary, "## Key Observations")
    /\ Contains(analysis_store[AnalysisId(2)].summary, "Request timed out.")

\* C26: an analyze_scenario call, returning or raising, leaves the scenario
\* store and the context store as they were; after a returning call the
\* scenario still has its id, company and changes and the context stored for
\* its company is the original context of the analysis.
C26_AnalyzeReadsOnly ==
    [][last'.op = "analyze_scenario" =>
           /\ scenario_store' = scenario_store
           /\ context_store' = context_store
           /\ AnalyzeReturns =>
                  LET a == analysis_store'[last'.returned]
                      s == scenario_store'[last'.arg]
                  IN /\ s.scenario_id = last'.arg
                     /\ s.company_id = a.company_id
                     /\ s.changes = offered
                     /\ context_store'[s.company_id] = a.original_context]_vars

\* the test scenario was analysed on the test context: the analysis has the
\* higher revenue, the store has the test context
C26_Witness ==
    /\ LastAnalyze
    /\ last.status = "returned"
    /\ analysis_store[last.returned].original_context = TestContext("test_company_123")
    /\ analysis_store[last.returned].updated_context.monthly_revenue = Whole(600000)
    /\ context_store["test_company_123"] = TestContext("test_company_123")
    /\ LastScenario.changes["monthly_revenue"] = Num(Whole(100000))

\* the percentages the last analyze_scenario call computed for its prompt
LastPercentages ==
    LET original == context_store[LastScenario.company_id]
        updated == validated_context(updated_data(original, LastScenario.changes))
    IN proposed_change_percentages(original, updated)
           \cup impact_percentages(original, calculate_impact(original, updated))

\* C27: the percentages one analyze_scenario call computes from the same
\* original value, when that value is zero, all come to the same result.
C27_OneConventionForZero ==
    (/\ LastAnalyzeOfStored
     /\ LastScenario.company_id \in DOMAIN context_store
     /\ OnlyNumericChanges(LastScenario.changes)) =>
        \A p, q \in LastPercentages :
            (p.field = q.field /\ p.denominator = 0 /\ q.denominator = 0)
                => p.value = q.value

OnlyUnknownKeys(changes) == changes # EmptyStore /\ DOMAIN changes \cap ContextFields = {}
ZeroImpact ==
    [revenue_change |-> 0, expense_change |-> 0, marketing_impact |-> 0,
     runway_impact |-> 0, profit_impact |-> 0]

\* C30: the updated context of every analysis has the fields of the schema
\* and no other; and an analyze_scenario call on a scenario whose changes name
\* only keys outside the schema, for a company with a context, returns an
\* analysis whose updated context is the original and whose impact is zero
\* in every figure.
C30_UnknownKeysIgnored ==
    /\ \A a \in Analyses : DOMAIN a.updated_context = ContextFields
    /\ (/\ LastAnalyzeOfStored
        /\ OnlyUnknownKeys(LastScenario.changes)
        /\ LastScenario.company_id \in DOMAIN context_store) =>
           /\ last.status = "returned"
           /\ analysis_store[last.returned].updated_context
                  = analysis_store[last.returned].original_context
           /\ analysis_store[last.returned].impact_analysis = ZeroImpact

\* a scenario {headcount: 5} analysed on the test context
C30_Witness ==
    /\ LastAnalyze
    /\ last.status = "returned"
    /\ DOMAIN LastScenario.changes = {"headcount"}
    /\ analysis_store[last.returned].original_context = TestContext("test_company_123")
    /\ analysis_store[last.returned].updated_context = TestContext("test_company_123")

\* a payload that lacks nothing but, possibly, its id and the defaulted fields
CompleteButForId(data) ==
    /\ "company_id" \in DOMAIN data
    /\ data["company_id"].t = "str"
    /\ \A f \in NumericFields : f \in DOMAIN data /\ data[f].t = "num"

\* C23: the context endpoint answers a payload without company_id with a 4xx
\* status and leaves the context store as it was; it answers a payload with
\* company_id and without id, complete otherwise, with 200, stores the
\* payload's figures under the payload's company id with a generated id, and
\* returns that id.
C23_ContextEndpoint ==
    [][response'.endpoint = "context" =>
           LET data == response'.request
           IN /\ "company_id" \notin DOMAIN data =>
                     /\ response'.status_code \in 400 .. 499
                     /\ context_store' = context_store
              /\ (CompleteButForId(data) /\ "id" \notin DOMAIN data) =>
                     LET company == data["company_id"].s
                     IN /\ response'.status_code = 200
                        /\ company \in DOMAIN context_store'
                        /\ context_store'[company].company_id = company
                        /\ context_store'[company].id \in GeneratedIds
                        /\ response'.body.context_id = context_store'[company].id
                        /\ \A f \in FloatFields :
                               context_store'[company][f] = data[f].n
                        /\ \A c \in DOMAIN context_store' \ {company} :
                               c \in DOMAIN context_store
                               /\ context_store'[c] = context_store[c]]_vars

\* globex sent its figures without id and timestamp after test_company_123
\* had sent a full payload: it is stored under a generated id, stamped by the
\* clock
C23_Witness ==
    /\ response.endpoint = "context"
    /\ response.status_code = 200
    /\ "id" \notin DOMAIN response.request
    /\ response.body.context_id = "ctx_a1b2c3d4"
    /\ DOMAIN context_store = {"test_company_123", "globex"}
    /\ context_store["globex"].id = "ctx_a1b2c3d4"
    /\ context_store["globex"].last_updated >= Epoch
    /\ context_store["test_company_123"].id = "test_ctx_1"

\* the request r was answered with the id its call of op returned
Answered(r, op) ==
    tasks[r].pc = "done" /\ tasks[r].op = op /\ tasks[r].status = "returned"

\* the record the call of request r inserted is in the store under its id
Inserted(r) ==
    IF tasks[r].op = "create_scenario"
    THEN /\ tasks[r].id \in DOMAIN scenario_store
         /\ scenario_store[tasks[r].id].scenario_id = tasks[r].id
         /\ scenario_store[tasks[r].id].company_id = tasks[r].arg
    ELSE /\ tasks[r].id \in DOMAIN analysis_store
         /\ analysis_store[tasks[r].id].analysis_id = tasks[r].id
         /\ analysis_store[tasks[r].id].scenario_id = tasks[r].arg

EventsOf(log, event) == {i \in 1 .. Len(log) : log[i].event = event}

\* C28: a call of analyze_scenario calls the generation service at most once,
\* whether the call answered or failed; the call comes after the impact was
\* computed, and the analysis is stored only after it.
C28_GenerationOnceInOrder ==
    \A r \in Requests :
        tasks[r].op = "analyze_scenario" =>
            LET log == tasks[r].log IN
            /\ Cardinality(EventsOf(log, "generate")) <= 1
            /\ \A i \in EventsOf(log, "generate") :
                   \E j \in EventsOf(log, "impact") : j < i
            /\ \A k \in EventsOf(log, "store") :
                   \E i \in EventsOf(log, "generate") : i < k

\* a call whose one generation call timed out has stored its analysis and is
\* about to return
C28_Witness ==
    \E r \in Requests :
        /\ tasks[r].op = "analyze_scenario"
        /\ tasks[r].pc = "return"
        /\ tasks[r].log = <<[event |-> "impact", kind |-> "none"],
                            [event |-> "generate", kind |-> "timeout"],
                            [event |-> "store", kind |-> "none"]>>

\* an analysis with its impact and its summary
CompleteAnalysis(a) ==
    /\ a.impact_analysis = calculate_impact(a.original_context, a.updated_context)
    /\ Contains(a.summary, "# Financial Impact Analysis")

\* the call of request r ends in this step with an exception
FailsNow(r) ==
    /\ tasks[r].op = "analyze_scenario"
    /\ in_flight(tasks[r])
    /\ tasks'[r].pc = "done"
    /\ tasks'[r].status = "raised"

\* C29: when a call of analyze_scenario ends with an exception the analysis
\* store is what it was when the call started; the store changes only by the
\* insert of a finished analysis under a new id, after which the handler only
\* returns; every analysis in the store has its impact and its summary.
C29_FailureLeavesAnalysesAlone ==
    [][/\ \A r \in Requests : FailsNow(r) => analysis_store' = tasks[r].seen
       /\ analysis_store' # analysis_store =>
              \E r \in Requests :
                  /\ tasks[r].pc = "store"
                  /\ tasks'[r].pc = "return"
                  /\ tasks[r].id \notin DOMAIN analysis_store
                  /\ analysis_store' = Put(analysis_store, tasks[r].id, tasks[r].record)
       /\ \A id \in DOMAIN analysis_store' : CompleteAnalysis(analysis_store'[id])
      ]_vars

\* a call failed while its prompt was built, after the impact was computed,
\* with an analysis of an earlier call in the store
C29_Witness ==
    \E r \in Requests :
        /\ tasks[r].pc = "done"
        /\ tasks[r].op = "analyze_scenario"
        /\ tasks[r].status = "raised"
        /\ tasks[r].error = "ZeroDivisionError"
        /\ analysis_store # EmptyStore

(***************************************************************************)
(* Properties of the retrieval index                                       *)
(***************************************************************************)
Searched == vs_last.op = "search" /\ vs_last.status = "returned"
MinNat(a, b) == IF a <= b THEN a ELSE b

\* C8: search(query, k) on an index of n documents returns exactly min(k, n)
\* documents, each stored document at most once.
C8_SearchReturnsMinKN ==
    Searched =>
        /\ Len(vs_last.result) = MinNat(vs_last.k, Len(documents))
        /\ \A i, j \in 1 .. Len(vs_last.result) :
               i # j => vs_last.result[i] # vs_last.result[j]

\* llm_rag_agent.py:115  the embedding collaborator: one fixed vector per text
Embed(text) ==
    CASE text = "runway" -> <<0>>
      [] text = "hiring" -> <<2>>
      [] text = "q1" -> <<0>>
      [] OTHER -> <<2>>

\* position i comes before position j, nearest first, earlier-added first on a tie
Nearer(query, i, j) ==
    LET di == L2sqr(Embed(query), Embed(documents[i].text))
        dj == L2sqr(Embed(query), Embed(documents[j].text))
    IN di < dj \/ (di = dj /\ i < j)

\* C9: the documents come nearest-first by the distance between the query's
\* embedding and each document's embedding, ties by insertion order, and a
\* repeated query on an unchanged index returns the same documents in the
\* same order (stated for k <= n, where the index has a vector for every slot).
C9_NearestFirstDeterministic ==
    (Searched /\ vs_last.k <= Len(documents)) =>
        /\ \A i, j \in 1 .. Len(vs_last.result) :
               i < j => Nearer(vs_last.query, vs_last.result[i], vs_last.result[j])
        /\ vs_last.repeats # "different"

\* C10: the document list is the concatenation, in call order, of the batches
\* added, and the index holds one vector per document.
C10_AppendOnly ==
    /\ documents = added
    /\ Len(index) = Len(documents)

\* the same text added twice, then an empty batch, then a search
C10_Witness ==
    /\ Len(documents) >= 2
    /\ documents[1] = documents[2]
    /\ Searched
    /\ Len(vs_last.result) > 0
    /\ documents = added

(***************************************************************************)
(* Properties of the forecast simulator                                    *)
(***************************************************************************)
RECURSIVE RunningBalance(_, _)
\* the balance after m months of adding the monthly net to the current cash
RunningBalance(s, m) ==
    IF m <= 0 THEN s.current_cash * 100 ELSE RunningBalance(s, m - 1) + monthly_net(s)

MonthsInHorizon(s) == 1 .. s.months_to_forecast
InsolventMonths(s) == {m \in MonthsInHorizon(s) : RunningBalance(s, m) <= 0}
MinOf(S) == CHOOSE x \in S : \A y \in S : x <= y
MaxOf(S) == CHOOSE x \in S : \A y \in S : x >= y
Returned == rw_pc = "done" /\ result.returned
Forecast == result.monthly_forecast

\* C4: the forecast has exactly m entries, m being the first month of the
\* horizon whose running balance is <= 0, or all the months of the horizon
\* (N of them; none when N < 0) if there is no such month; so no entry but
\* the last has a non-positive balance.
C4_StopsAtFirstInsolvency ==
    Returned =>
        /\ Len(Forecast) = IF InsolventMonths(scenario) # {}
                            THEN MinOf(InsolventMonths(scenario))
                            ELSE Cardinality(MonthsInHorizon(scenario))
        /\ \A i \in 1 .. Len(Forecast) :
               Forecast[i].balance <= 0 => i = Len(Forecast)

\* the 10000 / 5000 / 6000 / horizon 12 example: the loop stops at month 10
C4_Witness ==
    /\ Returned
    /\ scenario = [current_cash |-> 10000, monthly_revenue |-> 5000,
                   monthly_expenses |-> 6000, new_hires |-> 0, salary_per_hire |-> 0,
                   marketing_spend |-> 0, price_increase_percent |-> 0,
                   months_to_forecast |-> 12]
    /\ Len(Forecast) = 10
    /\ Forecast[10].balance = 0

PositiveEntries == {i \in 1 .. Len(Forecast) : RunningBalance(scenario, i) > 0}

\* C5: the runway is the last simulated month whose balance is positive (0 if
\* there is none); it is the horizon N when no month of a horizon N >= 0 has a
\* balance <= 0; a first stop on a balance of exactly 0 in month m gives a
\* runway of m - 1 and a forecast of m entries.
C5_RunwayIsLastPositiveMonth ==
    Returned =>
        /\ result.total_months_of_runway =
               IF PositiveEntries = {} THEN 0 ELSE MaxOf(PositiveEntries)
        /\ (InsolventMonths(scenario) = {} /\ scenario.months_to_forecast >= 0)
               => result.total_months_of_runway = scenario.months_to_forecast
        /\ \A m \in InsolventMonths(scenario) :
               (m = MinOf(InsolventMonths(scenario)) /\ RunningBalance(scenario, m) = 0)
                   => /\ result.total_months_of_runway = m - 1
                      /\ Len(Forecast) = m

\* the same example: balance 0 at month 10, runway 9
C5_Witness ==
    /\ Returned
    /\ scenario.current_cash = 10000 /\ scenario.months_to_forecast = 12
    /\ Len(Forecast) = 10
    /\ RunningBalance(scenario, 10) = 0
    /\ result.total_months_of_runway = 9

\* C6: every entry carries the one adjusted revenue and the expenses base +
\* hires x salary + marketing; entry number m is month m with balance
\* current cash + m x (adjusted revenue - expenses); the final balance is the
\* last entry's balance.
C6_ClosedFormForecast ==
    Returned =>
        /\ \A i \in 1 .. Len(Forecast) :
               /\ Forecast[i].month = i
               /\ Forecast[i].revenue =
                      scenario.monthly_revenue * (100 + scenario.price_increase_percent)
               /\ Forecast[i].expenses =
                      100 * (scenario.monthly_expenses
                             + scenario.new_hires * scenario.salary_per_hire
                             + scenario.marketing_spend)
               /\ Forecast[i].balance =
                      100 * scenario.current_cash
                      + i * (Forecast[i].revenue - Forecast[i].expenses)
        /\ Len(Forecast) > 0 => result.final_cash_balance = Forecast[Len(Forecast)].balance

\* the never-insolvent example: 1000 + 6 x 3000 = 19000
C6_Witness ==
    /\ Returned
    /\ scenario = [current_cash |-> 1000, monthly_revenue |-> 8000,
                   monthly_expenses |-> 5000, new_hires |-> 0, salary_per_hire |-> 0,
                   marketing_spend |-> 0, price_increase_percent |-> 0,
                   months_to_forecast |-> 6]
    /\ Len(Forecast) = 6
    /\ result.total_months_of_runway = 6
    /\ result.final_cash_balance = 19000 * 100

HorizonMonths == IF scenario.months_to_forecast > 0 THEN scenario.months_to_forecast ELSE 0

C7_Bounded ==
    /\ iterations <= HorizonMonths
    /\ Len(monthly_data) <= HorizonMonths
    /\ (Returned /\ scenario.months_to_forecast <= 0) =>
           /\ Forecast = <<>>
           /\ result.total_months_of_runway = 0
           /\ result.final_cash_balance = scenario.current_cash * 100

\* C7: calculate_runway returns, after at most N loop iterations (none when
\* N <= 0) and with at most that many entries; with N <= 0 the forecast is
\* empty, the runway 0 and the final balance the current cash.
C7_Terminates == [](C7_Bounded) /\ <>(rw_pc = "done")

C7_Witness ==
    /\ Returned
    /\ scenario.months_to_forecast <= 0
    /\ iterations = 0
    /\ Forecast = <<>>
    /\ result.final_cash_balance = scenario.current_cash * 100

====
